---- MODULE Spec2Model ----
(***************************************************************************)
(* Model of the in-memory state calculator of the executor                 *)
(* (execution/executor/src/components/in_memory_state_calculator.rs).      *)
(*                                                                         *)
(* A caller holds a base InMemoryState, builds an InMemoryStateCalculator  *)
(* from it with `new`, and runs calculate_for_transaction_chunk, which is  *)
(* a loop of add_transaction followed by finish and the optional epoch     *)
(* extraction.  The sparse Merkle tree, the proof reader and               *)
(* process_write_set live in other crates; they are modelled from their    *)
(* contracts.                                                              *)
(*                                                                         *)
(* Encodings.  A map from StateKey to StateValue is a function on Keys     *)
(* whose value NoValue (0) means "no entry".  A tree snapshot maps a key   *)
(* to a value (ExistsInScratchPad), to DoesNotExist (0) or to ExistsInDB   *)
(* (-1, the leaf is not materialised and an update of it needs a proof).   *)
(* A root hash is modelled by the content it commits to.  Option<T> is a   *)
(* set with at most one element, except Option<Version>, where NoVersion   *)
(* (-1) is None.                                                           *)
(***************************************************************************)
EXTENDS Integers, Sequences, FiniteSets, TLC

\* ---- bounds ----
NumKeys == 2
MaxVal == 2
MaxVersion == 3

Keys == 1..NumKeys
Values == 1..MaxVal

NoValue == 0
DoesNotExist == 0
ExistsInDB == -1
NoVersion == -1

\* The two resources read by parse_validator_set at the on-chain-config address.
ValidatorSetKey == 1
ConfigurationKey == 2

TxnKinds == {"UserTransaction", "BlockMetadata", "GenesisTransaction", "StateCheckpoint"}

EmptyMap == [k \in Keys |-> NoValue]
WriteSets == [Keys -> 0..MaxVal]
KeysOf(m) == {k \in Keys : m[k] # NoValue}

\* HashMap::extend: entries of `more` overwrite entries of `m`.
Extend(m, more) == [k \in Keys |-> IF more[k] # NoValue THEN more[k] ELSE m[k]]

\* ---- sparse Merkle tree (scratchpad crate) ----
\* A snapshot: kv is the content, born[k] the generation that created the leaf
\* of k, gen the generation of the snapshot itself.
EmptyTree(kv) == [kv |-> kv, born |-> [k \in Keys |-> 0], gen |-> 0]

\* The update of a key whose leaf is not materialised needs a proof.
BatchUpdateOk(tree, updates, proofs) ==
    \A k \in KeysOf(updates) : tree.kv[k] = ExistsInDB => k \in proofs

\* An empty batch returns the snapshot itself; otherwise a new generation is
\* spawned in which exactly the updated leaves are new.
batch_update(tree, updates, proofs) ==
    IF KeysOf(updates) = {} THEN tree
    ELSE [kv   |-> [k \in Keys |-> IF updates[k] # NoValue THEN updates[k] ELSE tree.kv[k]],
          born |-> [k \in Keys |-> IF updates[k] # NoValue THEN tree.gen + 1 ELSE tree.born[k]],
          gen  |-> tree.gen + 1]

\* The leaves of `tree` created after the snapshot `since`.
new_node_hashes_since(tree, since) ==
    [k \in Keys |-> IF tree.born[k] > since.gen THEN tree.kv[k] ELSE NoValue]

root_hash(tree) == tree.kv

\* StateStoreStatus::ExistsInScratchPad(value)
ExistsInScratchPad(tree, k) == tree.kv[k] > 0

\* ---- storage_interface ----
\* process_write_set: every written value lands in the cache; the written keys
\* are returned.
process_write_set_cache(cache, write_set) == Extend(cache, write_set)
process_write_set_keys(write_set) == KeysOf(write_set)

\* gen_updates: the cached value of every given key, or a failure when one is
\* missing from the cache.
gen_updates_ok(keys, cache) == \A k \in keys : cache[k] # NoValue
gen_updates(keys, cache) == [k \in Keys |-> IF k \in keys THEN cache[k] ELSE NoValue]

\* InMemoryState::new
InMemoryState(cp, cpv, cur, upd) ==
    [checkpoint |-> cp, checkpoint_version |-> cpv, current |-> cur,
     updated_since_checkpoint |-> upd]

\* The states a node starts from: the empty state before genesis, or the state
\* at a persisted checkpoint of which only the root is in memory.
InitialStates ==
    { [st |-> InMemoryState(EmptyTree([k \in Keys |-> DoesNotExist]), NoVersion,
                            EmptyTree([k \in Keys |-> DoesNotExist]), {}),
       next |-> 0],
      [st |-> InMemoryState(EmptyTree([k \in Keys |-> ExistsInDB]), 0,
                            EmptyTree([k \in Keys |-> ExistsInDB]), {}),
       next |-> 1] }

\* ---- state ----
VARIABLES
    base,                    \* the caller's InMemoryState
    base_next_version,       \* the version of the next transaction to execute
    pc,                      \* "idle", "running" (inside the chunk loop) or "returned"
    self,                    \* the InMemoryStateCalculator
    new_epoch,               \* argument of calculate_for_transaction_chunk
    state_updates_vec,       \* locals of calculate_for_transaction_chunk
    new_node_hashes_vec,
    state_checkpoint_hashes,
    returned,                \* the Result of the last chunk call
    first_version,           \* history: next_version handed to `new`
    consumed,                \* history: how many pairs of to_keep the loop has taken
    base_writes,             \* history: last value written to each key since the
                             \* checkpoint of `base`
    last_txn,                \* history: the last pair of to_keep that was processed
    chunk_writes,            \* history: last value written to each key in this chunk
    pending_writes,          \* history: same, but only the writes after the last
                             \* checkpoint that an earlier transaction of the chunk forced
    database,                \* PersistentMetadataStorage: the raw entries of the DB
    progress_written,        \* history: the last progress written for each version
    meta_result,             \* the last call on the metadata storage and its result
    fan_pc,                  \* updates_after_latest: "idle", "running" or "done"
    fan_self,                \* the calculator the parallel iterator borrows
    fan_todo,                \* the keys no worker has taken yet
    fan_parts,               \* what each worker has gathered
    fan_err,                 \* some lookup has failed
    fan_out                  \* the collected Result

otherVars == <<database, progress_written, meta_result, fan_pc, fan_self, fan_todo,
               fan_parts, fan_err, fan_out>>

calcVars == <<base, base_next_version, pc, self, new_epoch, state_updates_vec,
              new_node_hashes_vec, state_checkpoint_hashes, returned, first_version,
              consumed, base_writes, last_txn, chunk_writes, pending_writes>>

vars == <<base, base_next_version, pc, self, new_epoch, state_updates_vec,
          new_node_hashes_vec, state_checkpoint_hashes, returned, first_version,
          consumed, base_writes, last_txn, chunk_writes, pending_writes,
          database, progress_written, meta_result, fan_pc, fan_self, fan_todo,
          fan_parts, fan_err, fan_out>>

\* ---- the metadata storage and the parallel lookup, before any call ----
MaxSyncVersion == 1
MaxIndex == 1
NumWorkers == 2

SyncVersions == 0..MaxSyncVersion
Workers == 1..NumWorkers

\* StateSnapshotSyncProgress
Progress == [last_persisted_state_value_index : 0..MaxIndex,
             snapshot_sync_completed : BOOLEAN]

NoCall == [op |-> "none", version |-> 0, tag |-> "Ok", index |-> 0, complete |-> FALSE]

OthersIdle ==
    /\ database = {}
    /\ progress_written = [v \in SyncVersions |-> {}]
    /\ meta_result = NoCall
    /\ fan_pc = "idle"
    /\ fan_self = [updated_after_latest |-> {}, state_cache |-> EmptyMap]
    /\ fan_todo = {}
    /\ fan_parts = [w \in Workers |-> EmptyMap]
    /\ fan_err = FALSE
    /\ fan_out = [ok |-> TRUE, map |-> EmptyMap]

\* The calculator after it was consumed.
Dropped ==
    [state_cache |-> EmptyMap, proof_reader |-> {},
     checkpoint |-> EmptyTree(EmptyMap), checkpoint_version |-> NoVersion,
     latest |-> EmptyTree(EmptyMap), next_version |-> 0,
     updated_between_checkpoint_and_latest |-> {}, updated_after_latest |-> {}]

NoTxn == [txn |-> "none", is_reconfig |-> FALSE]

Init ==
    /\ \E i \in InitialStates : base = i.st /\ base_next_version = i.next
    /\ pc = "idle"
    /\ self = Dropped
    /\ new_epoch = FALSE
    /\ state_updates_vec = <<>>
    /\ new_node_hashes_vec = <<>>
    /\ state_checkpoint_hashes = <<>>
    /\ returned = [tag |-> "None"]
    /\ first_version = 0
    /\ consumed = 0
    /\ base_writes = EmptyMap
    /\ last_txn = NoTxn
    /\ chunk_writes = EmptyMap
    /\ pending_writes = EmptyMap
    /\ OthersIdle

\* ---- InMemoryStateCalculator ----
\* InMemoryStateCalculator::new
new(b, cache, proofs, version) ==
    [state_cache |-> cache, proof_reader |-> proofs,
     checkpoint |-> b.checkpoint, checkpoint_version |-> b.checkpoint_version,
     latest |-> b.current, next_version |-> version,
     updated_between_checkpoint_and_latest |-> b.updated_since_checkpoint,
     updated_after_latest |-> {}]

\* Mutant: a key without a cached value is skipped instead of reported.
updates_after_latest_ok_SkipsMissing(s) == TRUE

\* InMemoryStateCalculator::updates_after_latest
updates_after_latest_ok(s) ==
    \A k \in s.updated_after_latest : s.state_cache[k] # NoValue
updates_after_latest(s) ==
    [k \in Keys |-> IF k \in s.updated_after_latest THEN s.state_cache[k] ELSE NoValue]

\* Mutant: the difference with updated_after_latest is forgotten.
StraddlingKeys_NoDifference(s) == s.updated_between_checkpoint_and_latest

\* The keys changed between the checkpoint and latest and not after latest.
StraddlingKeys(s) == s.updated_between_checkpoint_and_latest \ s.updated_after_latest

\* Mutant: the straddling values are taken from the flat cache.
StraddlingUpdates_FromCache(s) ==
    [k \in Keys |-> IF k \in StraddlingKeys(s) THEN s.state_cache[k] ELSE NoValue]

\* The straddling keys with their values, read from self.latest.
StraddlingUpdates(s) ==
    [k \in Keys |-> IF k \in StraddlingKeys(s) THEN s.latest.kv[k] ELSE NoValue]

\* Mutant: latest is left behind at the checkpoint.
MoveToNewCheckpoint_KeepsLatest(s, new_checkpoint) ==
    [s EXCEPT !.checkpoint = new_checkpoint,
              !.checkpoint_version = s.next_version - 1,
              !.updated_between_checkpoint_and_latest = {},
              !.updated_after_latest = {}]

\* Mutant: updated_after_latest survives the checkpoint.
MoveToNewCheckpoint_NoReset(s, new_checkpoint) ==
    [s EXCEPT !.latest = new_checkpoint,
              !.checkpoint = new_checkpoint,
              !.checkpoint_version = s.next_version - 1,
              !.updated_between_checkpoint_and_latest = {}]

\* "Move self to the new checkpoint."
MoveToNewCheckpoint(s, new_checkpoint) ==
    [s EXCEPT !.latest = new_checkpoint,
              !.checkpoint = new_checkpoint,
              !.checkpoint_version = s.next_version - 1,
              !.updated_between_checkpoint_and_latest = {},
              !.updated_after_latest = {}]

Failure(msg, s) ==
    [ok |-> FALSE, msg |-> msg, state_updates |-> EmptyMap, new_node_hashes |-> EmptyMap,
     root_hash |-> {}, self |-> s]

\* Mutant: a straddling key that latest does not hold is left out of the delta.
checkpoint_DropsMissingStraddling(s) ==
    IF ~updates_after_latest_ok(s) THEN Failure("State value should exist.", s)
    ELSE LET upd == updates_after_latest(s) IN
    IF ~BatchUpdateOk(s.latest, upd, s.proof_reader) THEN Failure("batch_update", s)
    ELSE LET new_checkpoint == batch_update(s.latest, upd, s.proof_reader) IN
         [ok |-> TRUE, msg |-> "",
          state_updates |->
              Extend(upd, [k \in Keys |-> IF ExistsInScratchPad(s.latest, k)
                                          THEN StraddlingUpdates(s)[k] ELSE NoValue]),
          new_node_hashes |-> new_node_hashes_since(new_checkpoint, s.checkpoint),
          root_hash |-> {root_hash(new_checkpoint)},
          self |-> MoveToNewCheckpoint(s, new_checkpoint)]

\* Mutant: the node hashes are taken relative to latest, not to the previous
\* checkpoint.
checkpoint_HashesSinceLatest(s) ==
    IF ~updates_after_latest_ok(s) THEN Failure("State value should exist.", s)
    ELSE LET upd == updates_after_latest(s) IN
    IF ~BatchUpdateOk(s.latest, upd, s.proof_reader) THEN Failure("batch_update", s)
    ELSE LET new_checkpoint == batch_update(s.latest, upd, s.proof_reader) IN
    IF \E k \in StraddlingKeys(s) : ~ExistsInScratchPad(s.latest, k)
    THEN Failure("Pending state after checkpoint missing.", s)
    ELSE [ok |-> TRUE, msg |-> "",
          state_updates |-> Extend(upd, StraddlingUpdates(s)),
          new_node_hashes |-> new_node_hashes_since(new_checkpoint, s.latest),
          root_hash |-> {root_hash(new_checkpoint)},
          self |-> MoveToNewCheckpoint(s, new_checkpoint)]

\* InMemoryStateCalculator::checkpoint
checkpoint(s) ==
    IF ~updates_after_latest_ok(s) THEN Failure("State value should exist.", s)
    ELSE LET upd == updates_after_latest(s) IN
    IF ~BatchUpdateOk(s.latest, upd, s.proof_reader) THEN Failure("batch_update", s)
    ELSE LET new_checkpoint == batch_update(s.latest, upd, s.proof_reader) IN
    IF \E k \in StraddlingKeys(s) : ~ExistsInScratchPad(s.latest, k)
    THEN Failure("Pending state after checkpoint missing.", s)
    ELSE [ok |-> TRUE, msg |-> "",
          state_updates |-> Extend(upd, StraddlingUpdates(s)),
          new_node_hashes |-> new_node_hashes_since(new_checkpoint, s.checkpoint),
          root_hash |-> {root_hash(new_checkpoint)},
          self |-> MoveToNewCheckpoint(s, new_checkpoint)]

\* Mutant: a block-metadata transaction forces a checkpoint too.
ForcesCheckpoint_BlockMetadata(txn, is_reconfig) ==
    \/ is_reconfig
    \/ txn \in {"GenesisTransaction", "StateCheckpoint", "BlockMetadata"}

\* Mutant: only the reconfiguration flag is looked at.
ForcesCheckpoint_ReconfigOnly(txn, is_reconfig) == is_reconfig

\* The test of add_transaction that sends a transaction to checkpoint().
ForcesCheckpoint(txn, is_reconfig) ==
    \/ is_reconfig
    \/ txn \in {"GenesisTransaction", "StateCheckpoint"}

\* Mutant: next_version is not advanced.
ApplyWriteSet_NoVersionBump(s, write_set) ==
    [s EXCEPT !.state_cache = process_write_set_cache(s.state_cache, write_set),
              !.updated_after_latest = @ \cup process_write_set_keys(write_set)]

\* The head of add_transaction: the write-set goes into the cache, its keys
\* into updated_after_latest, and next_version advances.
ApplyWriteSet(s, write_set) ==
    [s EXCEPT !.state_cache = process_write_set_cache(s.state_cache, write_set),
              !.updated_after_latest = @ \cup process_write_set_keys(write_set),
              !.next_version = @ + 1]

\* InMemoryStateCalculator::add_transaction
add_transaction(s, txn, is_reconfig, write_set) ==
    LET s1 == ApplyWriteSet(s, write_set)
    IN  IF ForcesCheckpoint(txn, is_reconfig) THEN checkpoint(s1)
        ELSE [ok |-> TRUE, msg |-> "", state_updates |-> EmptyMap,
              new_node_hashes |-> EmptyMap, root_hash |-> {}, self |-> s1]

\* InMemoryStateCalculator::finish
finish_ok(s) ==
    /\ gen_updates_ok(s.updated_after_latest, s.state_cache)
    /\ BatchUpdateOk(s.latest, gen_updates(s.updated_after_latest, s.state_cache),
                     s.proof_reader)
\* Mutant: finish takes a checkpoint of what it folded.
finish_AlsoCheckpoints(s) ==
    LET upd == gen_updates(s.updated_after_latest, s.state_cache)
        latest == batch_update(s.latest, upd, s.proof_reader)
    IN  InMemoryState(latest, s.next_version - 1, latest, {})

\* Mutant: the keys folded by finish are not added to updated_since_checkpoint.
finish_DropsNewKeys(s) ==
    LET upd == gen_updates(s.updated_after_latest, s.state_cache)
        latest == batch_update(s.latest, upd, s.proof_reader)
    IN  InMemoryState(s.checkpoint, s.checkpoint_version, latest,
                      s.updated_between_checkpoint_and_latest)

finish(s) ==
    LET upd == gen_updates(s.updated_after_latest, s.state_cache)
        latest == batch_update(s.latest, upd, s.proof_reader)
    IN  InMemoryState(s.checkpoint, s.checkpoint_version, latest,
                      s.updated_between_checkpoint_and_latest \cup KeysOf(upd))

\* Mutant: a missing configuration resource goes unnoticed.
parse_validator_set_ok_ValidatorSetOnly(cache) == cache[ValidatorSetKey] # NoValue

\* InMemoryStateCalculator::parse_validator_set
parse_validator_set_ok(cache) ==
    cache[ValidatorSetKey] # NoValue /\ cache[ConfigurationKey] # NoValue
parse_validator_set(cache) ==
    [epoch |-> cache[ConfigurationKey], verifier |-> cache[ValidatorSetKey]]

Err(msg) == [tag |-> "Err", msg |-> msg]

\* ---- the caller ----
\* The value durable storage holds for a leaf that is not in memory.
DbValue == 1

\* The StateCache the caller builds by reading the keys `loaded` through the
\* base state: a key found in memory is cached with its value, a key that has to
\* be read from storage is cached with its stored value and its proof is kept.
Preload(tree, loaded) ==
    [k \in Keys |-> IF k \notin loaded THEN NoValue
                    ELSE IF tree.kv[k] = ExistsInDB THEN DbValue
                    ELSE tree.kv[k]]
Proofs(tree, loaded) == {k \in loaded : tree.kv[k] = ExistsInDB}

\* ---- actions ----
\* The caller builds a calculator from its base state and enters
\* calculate_for_transaction_chunk.
StartChunk ==
    /\ pc # "running"
    /\ \E loaded \in SUBSET Keys, ne \in BOOLEAN :
        /\ self' = new(base, Preload(base.current, loaded), Proofs(base.current, loaded),
                       base_next_version)
        /\ new_epoch' = ne
    /\ pc' = "running"
    /\ state_updates_vec' = <<>>
    /\ new_node_hashes_vec' = <<>>
    /\ state_checkpoint_hashes' = <<>>
    /\ returned' = [tag |-> "None"]
    /\ first_version' = base_next_version
    /\ consumed' = 0
    /\ last_txn' = NoTxn
    /\ chunk_writes' = EmptyMap
    /\ pending_writes' = EmptyMap
    /\ UNCHANGED <<base, base_next_version, base_writes>>
    /\ UNCHANGED otherVars

\* The last processed transaction forced a checkpoint.
AfterCheckpoint ==
    /\ Len(state_checkpoint_hashes) > 0
    /\ state_checkpoint_hashes[Len(state_checkpoint_hashes)] # {}

\* Mutant: when a transaction fails, the call returns what it has computed so
\* far.
AddTransaction_ReturnsPartial ==
    /\ pc = "running"
    /\ self.next_version < MaxVersion
    /\ \E txn \in TxnKinds, is_reconfig \in BOOLEAN, write_set \in WriteSets :
        LET r == add_transaction(self, txn, is_reconfig, write_set) IN
        IF r.ok
        THEN /\ self' = r.self
             /\ state_updates_vec' = Append(state_updates_vec, r.state_updates)
             /\ new_node_hashes_vec' = Append(new_node_hashes_vec, r.new_node_hashes)
             /\ state_checkpoint_hashes' = Append(state_checkpoint_hashes, r.root_hash)
             /\ last_txn' = [txn |-> txn, is_reconfig |-> is_reconfig]
             /\ chunk_writes' = Extend(chunk_writes, write_set)
             /\ pending_writes' = Extend(IF AfterCheckpoint THEN EmptyMap ELSE pending_writes,
                                         write_set)
             /\ UNCHANGED <<pc, returned>>
        ELSE /\ self' = Dropped
             /\ state_updates_vec' = <<>>
             /\ new_node_hashes_vec' = <<>>
             /\ state_checkpoint_hashes' = <<>>
             /\ pc' = "returned"
             /\ returned' = [tag |-> "Ok",
                             state_updates_vec |-> state_updates_vec,
                             new_node_hashes_vec |-> new_node_hashes_vec,
                             state_checkpoint_hashes |-> state_checkpoint_hashes,
                             result_state |-> InMemoryState(self.checkpoint,
                                 self.checkpoint_version, self.latest,
                                 self.updated_between_checkpoint_and_latest),
                             next_epoch_state |-> {}]
             /\ UNCHANGED <<last_txn, chunk_writes, pending_writes>>
    /\ consumed' = consumed + 1
    /\ UNCHANGED <<base, base_next_version, new_epoch, first_version, base_writes>>
    /\ UNCHANGED otherVars

\* One iteration of the loop over to_keep.
AddTransaction ==
    /\ pc = "running"
    /\ self.next_version < MaxVersion
    /\ \E txn \in TxnKinds, is_reconfig \in BOOLEAN, write_set \in WriteSets :
        LET r == add_transaction(self, txn, is_reconfig, write_set) IN
        IF r.ok
        THEN /\ self' = r.self
             /\ state_updates_vec' = Append(state_updates_vec, r.state_updates)
             /\ new_node_hashes_vec' = Append(new_node_hashes_vec, r.new_node_hashes)
             /\ state_checkpoint_hashes' = Append(state_checkpoint_hashes, r.root_hash)
             /\ last_txn' = [txn |-> txn, is_reconfig |-> is_reconfig]
             /\ chunk_writes' = Extend(chunk_writes, write_set)
             /\ pending_writes' = Extend(IF AfterCheckpoint THEN EmptyMap ELSE pending_writes,
                                         write_set)
             /\ UNCHANGED <<pc, returned>>
        ELSE /\ self' = Dropped
             /\ state_updates_vec' = <<>>
             /\ new_node_hashes_vec' = <<>>
             /\ state_checkpoint_hashes' = <<>>
             /\ pc' = "returned"
             /\ returned' = Err(r.msg)
             /\ UNCHANGED <<last_txn, chunk_writes, pending_writes>>
    /\ consumed' = consumed + 1
    /\ UNCHANGED <<base, base_next_version, new_epoch, first_version, base_writes>>
    /\ UNCHANGED otherVars

\* Mutant: the epoch state is extracted when the last transaction was a
\* reconfiguration, whatever the caller's flag says.
calculate_for_transaction_chunk_ByReconfig(s, ne, updates_vec, hashes_vec, checkpoint_hashes) ==
    IF ~finish_ok(s) THEN Err("finish")
    ELSE IF last_txn.is_reconfig /\ ~parse_validator_set_ok(s.state_cache)
    THEN Err("not touched on epoch change")
    ELSE [tag |-> "Ok",
          state_updates_vec |-> updates_vec,
          new_node_hashes_vec |-> hashes_vec,
          state_checkpoint_hashes |-> checkpoint_hashes,
          result_state |-> finish(s),
          next_epoch_state |-> IF last_txn.is_reconfig
                               THEN {parse_validator_set(s.state_cache)} ELSE {}]

\* The tail of calculate_for_transaction_chunk: finish(), the epoch extraction
\* and the returned tuple.
calculate_for_transaction_chunk(s, ne, updates_vec, hashes_vec, checkpoint_hashes) ==
    IF ~finish_ok(s) THEN Err("finish")
    ELSE IF ne /\ ~parse_validator_set_ok(s.state_cache)
    THEN Err("not touched on epoch change")
    ELSE [tag |-> "Ok",
          state_updates_vec |-> updates_vec,
          new_node_hashes_vec |-> hashes_vec,
          state_checkpoint_hashes |-> checkpoint_hashes,
          result_state |-> finish(s),
          next_epoch_state |-> IF ne THEN {parse_validator_set(s.state_cache)} ELSE {}]

\* The end of the loop over to_keep and the return of the call.
Finish ==
    /\ pc = "running"
    /\ pc' = "returned"
    /\ returned' = calculate_for_transaction_chunk(self, new_epoch, state_updates_vec,
                        new_node_hashes_vec, state_checkpoint_hashes)
    /\ self' = Dropped
    /\ state_updates_vec' = <<>>
    /\ new_node_hashes_vec' = <<>>
    /\ state_checkpoint_hashes' = <<>>
    /\ UNCHANGED <<base, base_next_version, new_epoch, first_version, consumed,
                   base_writes, last_txn, chunk_writes, pending_writes>>
    /\ UNCHANGED otherVars

\* Some transaction of the returned chunk forced a checkpoint.
ChunkHadCheckpoint ==
    \E i \in 1..Len(returned.state_checkpoint_hashes) :
        returned.state_checkpoint_hashes[i] # {}
LastOfChunkWasCheckpoint ==
    /\ Len(returned.state_checkpoint_hashes) > 0
    /\ returned.state_checkpoint_hashes[Len(returned.state_checkpoint_hashes)] # {}

\* The caller takes the returned state as the base of the next chunk.
AdoptResult ==
    /\ pc = "returned"
    /\ returned.tag = "Ok"
    /\ base' = returned.result_state
    /\ base_next_version' = first_version + consumed
    /\ base_writes' = IF ~ChunkHadCheckpoint THEN Extend(base_writes, chunk_writes)
                      ELSE IF LastOfChunkWasCheckpoint THEN EmptyMap
                      ELSE pending_writes
    /\ pc' = "idle"
    /\ UNCHANGED <<self, new_epoch, state_updates_vec, new_node_hashes_vec,
                   state_checkpoint_hashes, returned, first_version, consumed, last_txn,
                   chunk_writes, pending_writes>>
    /\ UNCHANGED otherVars

Next == StartChunk \/ AddTransaction \/ Finish \/ AdoptResult

Spec == Init /\ [][Next]_vars

\* ---- properties ----
Last(seq) == seq[Len(seq)]

ReturnedOk == pc = "returned" /\ returned.tag = "Ok"

\* A checkpoint was just taken inside the running call.
JustCheckpointed == pc = "running" /\ AfterCheckpoint

\* No transaction before the last processed one forced a checkpoint.
NoEarlierCheckpoint ==
    \A i \in 1..(Len(state_checkpoint_hashes) - 1) : state_checkpoint_hashes[i] = {}

\* The writes a checkpoint has to publish, by the history of writes alone: the
\* writes of earlier chunks since the checkpoint of the base (only when this
\* is the first checkpoint of the chunk), overlaid by those of this chunk.
WritesSincePreviousCheckpoint ==
    Extend(IF NoEarlierCheckpoint THEN base_writes ELSE EmptyMap, pending_writes)

\* C1: Full-recompute equivalence.  When a chunk call succeeds, the content and
\* the root hash of the returned state's latest snapshot are those of the base
\* latest snapshot after one batch update with the chunk's cumulative write-set
\* (last write per key wins), wherever the chunk took checkpoints.
C1_FullRecomputeEquivalence ==
    ReturnedOk =>
        LET once == batch_update(base.current, chunk_writes, Keys) IN
        /\ returned.result_state.current.kv = once.kv
        /\ root_hash(returned.result_state.current) = root_hash(once)
        /\ \A k \in KeysOf(chunk_writes) :
               returned.result_state.current.kv[k] = chunk_writes[k]

\* A chunk of three transactions with a checkpoint in the middle, writes before
\* and after it, and a key written on both sides with different values.
C1_Witness ==
    /\ ReturnedOk
    /\ Len(returned.state_checkpoint_hashes) = 3
    /\ returned.state_checkpoint_hashes[1] = {}
    /\ returned.state_checkpoint_hashes[2] # {}
    /\ returned.state_checkpoint_hashes[3] = {}
    /\ \E k \in Keys :
        /\ returned.state_updates_vec[2][k] # NoValue
        /\ pending_writes[k] # NoValue
        /\ pending_writes[k] # returned.state_updates_vec[2][k]

\* C2: Checkpoint delta completeness.  The delta emitted by a checkpoint has as
\* keys exactly the keys written since the previous checkpoint (in earlier
\* chunks or in this one) and maps each to the last value written to it.
C2_CheckpointDeltaComplete ==
    JustCheckpointed =>
        /\ KeysOf(Last(state_updates_vec)) = KeysOf(WritesSincePreviousCheckpoint)
        /\ KeysOf(Last(state_updates_vec)) =
               (IF NoEarlierCheckpoint THEN base.updated_since_checkpoint ELSE {})
               \cup KeysOf(pending_writes)
        /\ Last(state_updates_vec) = WritesSincePreviousCheckpoint

\* A first checkpoint whose delta has a key written both before the chunk and
\* in it, with different values, next to a key written only before the chunk.
C2_Witness ==
    /\ JustCheckpointed
    /\ NoEarlierCheckpoint
    /\ \E k \in Keys :
        /\ k \in base.updated_since_checkpoint
        /\ pending_writes[k] # NoValue
        /\ pending_writes[k] # base_writes[k]
    /\ \E k \in Keys :
        /\ k \in base.updated_since_checkpoint
        /\ pending_writes[k] = NoValue

\* C3: Non-checkpoint transactions are delta-silent.  A user or block-metadata
\* transaction that is not flagged as a reconfiguration yields an empty delta,
\* an empty node-hash map and no root hash.
C3_NonCheckpointSilent ==
    (/\ pc = "running"
     /\ consumed > 0
     /\ ~last_txn.is_reconfig
     /\ last_txn.txn \in {"UserTransaction", "BlockMetadata"})
    => /\ Last(state_updates_vec) = EmptyMap
       /\ Last(new_node_hashes_vec) = EmptyMap
       /\ Last(state_checkpoint_hashes) = {}

\* A silent user transaction that wrote, on top of pending inherited writes.
C3_Witness ==
    /\ pc = "running"
    /\ last_txn.txn = "UserTransaction"
    /\ ~last_txn.is_reconfig
    /\ self.updated_after_latest # {}
    /\ self.updated_between_checkpoint_and_latest # {}
    /\ Last(state_checkpoint_hashes) = {}

\* C4: Checkpoint trigger rule.  The root hash of a processed transaction is
\* Some if and only if the transaction is flagged as a reconfiguration or is a
\* genesis or state-checkpoint transaction.
C4_CheckpointTrigger ==
    (pc = "running" /\ consumed > 0) =>
        /\ (Last(state_checkpoint_hashes) # {})
              <=> (\/ last_txn.is_reconfig
                   \/ last_txn.txn = "GenesisTransaction"
                   \/ last_txn.txn = "StateCheckpoint")
        /\ (last_txn.txn \in {"GenesisTransaction", "StateCheckpoint"}
              => Last(state_checkpoint_hashes) # {})
        /\ (last_txn.is_reconfig => Last(state_checkpoint_hashes) # {})

\* A reconfiguration-flagged block-metadata transaction that took a checkpoint.
C4_Witness ==
    /\ pc = "running"
    /\ last_txn.txn = "BlockMetadata"
    /\ last_txn.is_reconfig
    /\ Last(state_checkpoint_hashes) # {}

\* C5: Reset invariant.  Right after a checkpoint both change-tracking sets are
\* empty, checkpoint_version is next_version - 1, and the checkpoint and the
\* latest snapshot both hold the content of the newly built snapshot.
C5_ResetInvariant ==
    JustCheckpointed =>
        /\ self.updated_between_checkpoint_and_latest = {}
        /\ self.updated_after_latest = {}
        /\ self.checkpoint_version = self.next_version - 1
        /\ self.checkpoint.kv = self.latest.kv
        /\ Last(state_checkpoint_hashes) = {root_hash(self.latest)}
        /\ \A k \in KeysOf(Last(state_updates_vec)) :
               self.latest.kv[k] = Last(state_updates_vec)[k]

\* A checkpoint that folded both inherited and fresh writes.
C5_Witness ==
    /\ JustCheckpointed
    /\ base.updated_since_checkpoint # {}
    /\ NoEarlierCheckpoint
    /\ KeysOf(pending_writes) # {}
    /\ self.checkpoint_version = 2

\* The invariant of an InMemoryState: the two snapshots agree on every key
\* outside updated_since_checkpoint.
ResultStateInvariant(st) ==
    \A k \in Keys \ st.updated_since_checkpoint : st.current.kv[k] = st.checkpoint.kv[k]

\* C6: The Result State invariant is preserved across chunks.  The base of
\* every chunk satisfies it, and so does the state a successful call returns.
C6_ResultStateInvariantPreserved ==
    /\ ResultStateInvariant(base)
    /\ ReturnedOk => ResultStateInvariant(returned.result_state)

\* A returned state with trailing writes after a checkpoint in the chunk, built
\* on a base that had pending writes itself.
C6_Witness ==
    /\ ReturnedOk
    /\ base.updated_since_checkpoint # {}
    /\ ChunkHadCheckpoint
    /\ returned.result_state.updated_since_checkpoint # {}
    /\ returned.result_state.current.kv # returned.result_state.checkpoint.kv

\* The position in the chunk (from 1) of the last checkpoint, 0 when none.
LastCheckpointIndex(hashes) ==
    IF \A i \in 1..Len(hashes) : hashes[i] = {} THEN 0
    ELSE CHOOSE i \in 1..Len(hashes) :
             hashes[i] # {} /\ \A j \in (i + 1)..Len(hashes) : hashes[j] = {}

VersionInvariant(cpv, next) == cpv # NoVersion => cpv <= next - 1

\* C7: Version invariant.  next_version grows by one per processed transaction;
\* checkpoint_version, when defined, is at most next_version - 1; a checkpoint
\* forced by the i-th transaction (from 0) of a chunk that starts at version v
\* sets it to v + i; without a checkpoint it stays what the base had, none
\* included.
C7_VersionInvariant ==
    /\ VersionInvariant(base.checkpoint_version, base_next_version)
    /\ pc = "running" =>
        LET p == LastCheckpointIndex(state_checkpoint_hashes) IN
        /\ self.next_version = first_version + consumed
        /\ VersionInvariant(self.checkpoint_version, self.next_version)
        /\ p > 0 => self.checkpoint_version = first_version + (p - 1)
        /\ p = 0 => self.checkpoint_version = base.checkpoint_version
    /\ ReturnedOk =>
        LET p == LastCheckpointIndex(returned.state_checkpoint_hashes) IN
        /\ VersionInvariant(returned.result_state.checkpoint_version,
                            first_version + consumed)
        /\ p > 0 => returned.result_state.checkpoint_version = first_version + (p - 1)
        /\ (p = 0 /\ base.checkpoint_version = NoVersion)
              => returned.result_state.checkpoint_version = NoVersion

\* A chunk that starts at version 1, whose second transaction forced the
\* checkpoint.
C7_Witness ==
    /\ pc = "running"
    /\ first_version = 1
    /\ consumed = 2
    /\ LastCheckpointIndex(state_checkpoint_hashes) = 2
    /\ self.checkpoint_version = 2
    /\ self.next_version = 3

\* C8: Straddling keys.  At the first checkpoint of a chunk every inherited key
\* the chunk has not written is in the delta, with its value in the snapshot
\* the checkpoint built.
C8_StraddlingKeys ==
    (JustCheckpointed /\ NoEarlierCheckpoint) =>
        \A k \in base.updated_since_checkpoint \ KeysOf(pending_writes) :
            /\ Last(state_updates_vec)[k] # NoValue
            /\ Last(state_updates_vec)[k] = self.latest.kv[k]
            /\ {Last(state_updates_vec)[k]} = {h[k] : h \in Last(state_checkpoint_hashes)}

\* The scenario of the specification: key 1 inherited with value 1, the chunk
\* writes key 2 = 2 and takes a checkpoint; the delta is {1: 1, 2: 2}.
C8_Witness ==
    /\ JustCheckpointed
    /\ NoEarlierCheckpoint
    /\ base.updated_since_checkpoint = {1}
    /\ base.current.kv[1] = 1
    /\ pending_writes = [k \in Keys |-> IF k = 2 THEN 2 ELSE NoValue]
    /\ \A k \in Keys : Last(state_updates_vec)[k] = (IF k \in {1, 2} THEN k ELSE NoValue)

\* The value of a key in the flat cache when the loop has ended.
FinalCacheValue(k) ==
    IF chunk_writes[k] # NoValue THEN chunk_writes[k] ELSE Preload(base.current, Keys)[k]

\* C9: The epoch state follows the caller's flag only.  A successful call
\* returns an EpochState exactly when new_epoch is set, read from the final
\* cache; with new_epoch unset a reconfiguration transaction still takes its
\* checkpoint and no EpochState is returned.
C9_EpochStateByFlag ==
    ReturnedOk =>
        /\ (returned.next_epoch_state # {}) <=> new_epoch
        /\ new_epoch =>
              returned.next_epoch_state =
                  {[epoch |-> FinalCacheValue(ConfigurationKey),
                    verifier |-> FinalCacheValue(ValidatorSetKey)]}
        /\ (~new_epoch /\ consumed > 0 /\ last_txn.is_reconfig) =>
              /\ Last(returned.state_checkpoint_hashes) # {}
              /\ returned.next_epoch_state = {}

\* A reconfiguration transaction checkpointed, the caller did not set the flag.
C9_Witness ==
    /\ ReturnedOk
    /\ ~new_epoch
    /\ consumed > 0
    /\ last_txn.is_reconfig
    /\ last_txn.txn = "UserTransaction"
    /\ Last(returned.state_checkpoint_hashes) # {}
    /\ returned.next_epoch_state = {}

\* What a call that has returned handed to its caller.
AllOrNothing ==
    pc = "returned" =>
        \/ /\ returned.tag = "Ok"
           /\ DOMAIN returned = {"tag", "state_updates_vec", "new_node_hashes_vec",
                                 "state_checkpoint_hashes", "result_state",
                                 "next_epoch_state"}
           /\ Len(returned.state_updates_vec) = consumed
           /\ Len(returned.new_node_hashes_vec) = consumed
           /\ Len(returned.state_checkpoint_hashes) = consumed
        \/ /\ returned.tag = "Err"
           /\ DOMAIN returned = {"tag", "msg"}

\* C10: All-or-nothing chunk result.  A call returns either three sequences
\* with one entry per input transaction and the final state, or a failure
\* alone; the call, and a failure it returned, leave the caller's base state
\* as it was.
C10_AllOrNothing ==
    /\ []AllOrNothing
    /\ [][(pc = "running" \/ (pc = "returned" /\ returned.tag = "Err"))
             => (base' = base /\ base_next_version' = base_next_version)]_vars

\* A call that failed at its second transaction, after the first one had
\* written.
C10_Witness ==
    /\ pc = "returned"
    /\ returned.tag = "Err"
    /\ returned.msg = "batch_update"
    /\ consumed = 2
    /\ KeysOf(chunk_writes) # {}

\* ---- the calculator in the middle of the loop ----
\* process_write_set and the caller are other crates.  SpecAny starts the
\* calculator in the loop of calculate_for_transaction_chunk with any cache,
\* snapshot and change-tracking sets, whether or not those crates would
\* produce them, with one transaction left to take.
AnyCalculators ==
    { [state_cache |-> cache, proof_reader |-> proofs,
       checkpoint |-> EmptyTree(kv), checkpoint_version |-> NoVersion,
       latest |-> EmptyTree(kv), next_version |-> MaxVersion - 1,
       updated_between_checkpoint_and_latest |-> between,
       updated_after_latest |-> after] :
      cache \in [Keys -> 0..MaxVal], proofs \in SUBSET Keys,
      kv \in [Keys -> {ExistsInDB, DoesNotExist} \cup Values],
      between \in SUBSET Keys, after \in SUBSET Keys }

InitAny ==
    /\ self \in AnyCalculators
    /\ base = InMemoryState(self.checkpoint, self.checkpoint_version, self.latest,
                            self.updated_between_checkpoint_and_latest)
    /\ base_next_version = self.next_version
    /\ pc = "running"
    /\ new_epoch = FALSE
    /\ state_updates_vec = <<>>
    /\ new_node_hashes_vec = <<>>
    /\ state_checkpoint_hashes = <<>>
    /\ returned = [tag |-> "None"]
    /\ first_version = self.next_version
    /\ consumed = 0
    /\ base_writes = EmptyMap
    /\ last_txn = NoTxn
    /\ chunk_writes = EmptyMap
    /\ pending_writes = EmptyMap
    /\ OthersIdle

NextAny == AddTransaction \/ Finish

SpecAny == InitAny /\ [][NextAny]_vars

\* A step of the loop that took a checkpoint and went on.
CheckpointStep ==
    /\ pc = "running" /\ pc' = "running"
    /\ Len(state_checkpoint_hashes') = Len(state_checkpoint_hashes) + 1
    /\ Last(state_checkpoint_hashes') # {}

\* The step that ended the loop and returned a Result State.
FinishOkStep ==
    /\ pc = "running" /\ pc' = "returned"
    /\ consumed' = consumed
    /\ returned'.tag = "Ok"

\* C11: A missing cache value is fatal.  No checkpoint succeeds, and no Result
\* State is returned, while a key of updated_after_latest has no value in the
\* flat cache: a checkpoint that went through has every such key in its delta
\* with a value, a finish that went through found every such key cached and
\* folded it into latest.
C11_MissingCacheValueFatal ==
    [][/\ CheckpointStep =>
            \A k \in self.updated_after_latest :
                /\ Last(state_updates_vec')[k] # NoValue
                /\ Last(state_updates_vec')[k] = self'.latest.kv[k]
       /\ FinishOkStep =>
            \A k \in self.updated_after_latest :
                /\ self.state_cache[k] # NoValue
                /\ k \in returned'.result_state.updated_since_checkpoint
                /\ returned'.result_state.current.kv[k] = self.state_cache[k]
      ]_vars

\* A call that failed in a checkpoint on a key without a cached value.
C11_Witness ==
    /\ pc = "returned"
    /\ returned.tag = "Err"
    /\ returned.msg = "State value should exist."
    /\ consumed = 1

\* The calculator at the entry of checkpoint(), where only the lookup of a
\* straddling key fails.
OnlyStraddlingLookupFails(s) ==
    /\ \A k \in s.updated_after_latest : s.state_cache[k] # NoValue
    /\ \A k \in s.updated_after_latest : s.latest.kv[k] = ExistsInDB => k \in s.proof_reader
    /\ \E k \in s.updated_between_checkpoint_and_latest \ s.updated_after_latest :
           s.latest.kv[k] \in {DoesNotExist, ExistsInDB}

\* C12: A missing straddling value is fatal.  A checkpoint whose lookup of a
\* straddling key in latest finds no materialised value fails with "Pending
\* state after checkpoint missing" and leaves the calculator as it was; a
\* checkpoint that went through has every inherited key in its delta.
C12_MissingStraddlingValueFatal ==
    /\ [](pc = "running" =>
            \A write_set \in WriteSets :
                LET s1 == ApplyWriteSet(self, write_set) IN
                OnlyStraddlingLookupFails(s1) =>
                    /\ ~checkpoint(s1).ok
                    /\ checkpoint(s1).msg = "Pending state after checkpoint missing."
                    /\ checkpoint(s1).self = s1)
    /\ [][/\ CheckpointStep =>
               \A k \in self.updated_between_checkpoint_and_latest :
                   Last(state_updates_vec')[k] \in Values
          /\ (pc = "running" /\ pc' = "returned" /\ returned'.tag = "Err"
                /\ returned'.msg = "Pending state after checkpoint missing.")
               => \E k \in self.updated_between_checkpoint_and_latest :
                      self.latest.kv[k] \in {DoesNotExist, ExistsInDB}
         ]_vars

\* A call that failed in a checkpoint on a straddling key latest does not hold.
C12_Witness ==
    /\ pc = "returned"
    /\ returned.tag = "Err"
    /\ returned.msg = "Pending state after checkpoint missing."
    /\ consumed = 1
    /\ \E k \in base.updated_since_checkpoint : base.current.kv[k] = DoesNotExist

\* The step that ended the loop and returned, with or without success.
FinishStep ==
    /\ pc = "running" /\ pc' = "returned"
    /\ consumed' = consumed

\* C13: A failed epoch extraction is fatal.  With new_epoch set, the call
\* succeeds only when the final cache holds both the validator-set and the
\* configuration resource; when one is absent the call returns a failure and
\* no Result State, also when all transactions and finish() went through.
C13_EpochExtractionFatal ==
    [][(FinishStep /\ new_epoch) =>
          LET present == /\ self.state_cache[ValidatorSetKey] # NoValue
                         /\ self.state_cache[ConfigurationKey] # NoValue
          IN  /\ returned'.tag = "Ok" => present
              /\ ~present => (returned'.tag = "Err" /\ DOMAIN returned' = {"tag", "msg"})
              /\ (returned'.tag = "Err" /\ returned'.msg = "not touched on epoch change")
                    => ~present
      ]_vars

\* All transactions and finish() went through, the validator set was written
\* in the chunk, and the call failed in the epoch extraction.
C13_Witness ==
    /\ pc = "returned"
    /\ new_epoch
    /\ returned.tag = "Err"
    /\ returned.msg = "not touched on epoch change"
    /\ consumed = 2
    /\ chunk_writes[ValidatorSetKey] # NoValue
    /\ chunk_writes[ConfigurationKey] = NoValue

\* ---- PersistentMetadataStorage ----
\* The discriminant of the only variant of MetadataKey and of MetadataValue.
StateSnapshotSyncTag == 0

\* MetadataKey::StateSnapshotSync(version)
StateSnapshotSyncKey(version) == [variant |-> StateSnapshotSyncTag, version |-> version]
\* MetadataValue::StateSnapshotSync(progress)
StateSnapshotSyncValue(progress) == [variant |-> StateSnapshotSyncTag, progress |-> progress]

MetadataKeys == {StateSnapshotSyncKey(v) : v \in SyncVersions}
MetadataValues == {StateSnapshotSyncValue(p) : p \in Progress}

\* ToPrimitive::to_u8: the discriminant alone.
to_u8(x) == x.variant

\* FromPrimitive::from_u8: the variant the byte names; the byte carries nothing
\* of the variant's payload, so every payload is a possible outcome.  The empty
\* set is None.
from_u8(n, domain) == {x \in domain : x.variant = n}

\* ensure_slice_len_eq
ensure_slice_len_eq(data, len) == Len(data) = len

\* KeyCodec::encode_key
encode_key(key) == <<to_u8(key)>>

\* KeyCodec::decode_key: the keys the call can return, none when it fails.
decode_key(data) ==
    IF ~ensure_slice_len_eq(data, 1) THEN {} ELSE from_u8(data[1], MetadataKeys)

\* ValueCodec::encode_value
encode_value(value) == <<to_u8(value)>>

\* ValueCodec::decode_value: the values the call can return, none when it fails.
decode_value(data) ==
    IF ~ensure_slice_len_eq(data, 1) THEN {} ELSE from_u8(data[1], MetadataValues)

\* SchemaBatch::put followed by commit: the entry under the encoded key is
\* replaced.
Put(db, key, value) ==
    {e \in db : e.key # encode_key(key)}
        \cup {[key |-> encode_key(key), value |-> encode_value(value)]}

\* get_snapshot_sync_progress_at_version: the Option<StateSnapshotSyncProgress>
\* values (sets of at most one element) the read can return.
get_snapshot_sync_progress_at_version(db, version) ==
    LET raw == {e \in db : e.key = encode_key(StateSnapshotSyncKey(version))} IN
    IF raw = {} THEN {{}}
    ELSE {{value.progress} : value \in UNION {decode_value(e.value) : e \in raw}}

\* update_last_persisted_state_value_index
UpdateLastPersistedStateValueIndex ==
    /\ \E version \in SyncVersions, progress \in Progress :
        /\ database' = Put(database, StateSnapshotSyncKey(version),
                           StateSnapshotSyncValue(progress))
        /\ progress_written' = [progress_written EXCEPT ![version] = {progress}]
        /\ meta_result' = [op |-> "update_last_persisted_state_value_index",
                           version |-> version, tag |-> "Ok",
                           index |-> progress.last_persisted_state_value_index,
                           complete |-> progress.snapshot_sync_completed]
    /\ UNCHANGED calcVars
    /\ UNCHANGED <<fan_pc, fan_self, fan_todo, fan_parts, fan_err, fan_out>>

\* is_snapshot_sync_complete
IsSnapshotSyncComplete ==
    /\ \E version \in SyncVersions :
       \E found \in get_snapshot_sync_progress_at_version(database, version) :
        meta_result' = [op |-> "is_snapshot_sync_complete", version |-> version,
                        tag |-> "Ok", index |-> 0,
                        complete |-> \E p \in found : p.snapshot_sync_completed]
    /\ UNCHANGED <<database, progress_written>>
    /\ UNCHANGED calcVars
    /\ UNCHANGED <<fan_pc, fan_self, fan_todo, fan_parts, fan_err, fan_out>>

\* get_last_persisted_state_value_index
GetLastPersistedStateValueIndex ==
    /\ \E version \in SyncVersions :
       \E found \in get_snapshot_sync_progress_at_version(database, version) :
        meta_result' =
            IF found = {}
            THEN [op |-> "get_last_persisted_state_value_index", version |-> version,
                  tag |-> "StorageError", index |-> 0, complete |-> FALSE]
            ELSE [op |-> "get_last_persisted_state_value_index", version |-> version,
                  tag |-> "Ok",
                  index |-> (CHOOSE p \in found : TRUE).last_persisted_state_value_index,
                  complete |-> FALSE]
    /\ UNCHANGED <<database, progress_written>>
    /\ UNCHANGED calcVars
    /\ UNCHANGED <<fan_pc, fan_self, fan_todo, fan_parts, fan_err, fan_out>>

NextMeta ==
    \/ UpdateLastPersistedStateValueIndex
    \/ IsSnapshotSyncComplete
    \/ GetLastPersistedStateValueIndex

SpecMeta == Init /\ [][NextMeta]_vars

\* C15: Snapshot-sync completion is per version.  is_snapshot_sync_complete(v)
\* is true exactly when the last progress written for v has
\* snapshot_sync_completed set, and false when nothing was written for v.
C15_CompletePerVersion ==
    meta_result.op = "is_snapshot_sync_complete" =>
        /\ meta_result.tag = "Ok"
        /\ meta_result.complete <=>
               \E p \in progress_written[meta_result.version] : p.snapshot_sync_completed

\* C16: get_last_persisted_state_value_index(v) returns the index of the last
\* update for v, and a storage error when nothing was written for v.
C16_LastIndexPerVersion ==
    meta_result.op = "get_last_persisted_state_value_index" =>
        IF progress_written[meta_result.version] = {}
        THEN meta_result.tag = "StorageError"
        ELSE /\ meta_result.tag = "Ok"
             /\ \E p \in progress_written[meta_result.version] :
                    meta_result.index = p.last_persisted_state_value_index

\* C17: The schema round-trips.  Decoding the encoded key of an update gives
\* that key back, decoding its encoded value gives that value back, and keys
\* of different versions have different encodings.
C17_EncodeDecodeRoundTrip ==
    meta_result.op = "update_last_persisted_state_value_index" =>
        LET key == StateSnapshotSyncKey(meta_result.version)
            value == StateSnapshotSyncValue(
                         [last_persisted_state_value_index |-> meta_result.index,
                          snapshot_sync_completed |-> meta_result.complete])
        IN  /\ decode_key(encode_key(key)) = {key}
            /\ decode_value(encode_value(value)) = {value}
            /\ \A other \in MetadataKeys : other # key => encode_key(other) # encode_key(key)

\* ---- finish ----
\* The content of `tree` after the keys of `keys` took their cached values.
Folded(tree, keys, cache) == [k \in Keys |-> IF k \in keys THEN cache[k] ELSE tree.kv[k]]

\* C18: Finish folds without checkpointing.  The step that returns a Result
\* State puts the cached values of the updated_after_latest keys into latest,
\* adds nothing to the per-transaction sequences, hands on checkpoint and
\* checkpoint_version as the calculator held them (set by the last checkpoint
\* of the chunk, or by the base when there was none), and returns
\* updated_between_checkpoint_and_latest united with updated_after_latest as
\* updated_since_checkpoint.  So a chunk whose last transaction forced a
\* checkpoint returns an empty set and a latest snapshot equal to checkpoint.
C18_FinishFoldsWithoutCheckpoint ==
    /\ [][FinishOkStep =>
            LET st == returned'.result_state IN
            /\ st.current.kv = Folded(self.latest, self.updated_after_latest,
                                      self.state_cache)
            /\ returned'.state_updates_vec = state_updates_vec
            /\ returned'.new_node_hashes_vec = new_node_hashes_vec
            /\ returned'.state_checkpoint_hashes = state_checkpoint_hashes
            /\ Len(returned'.state_checkpoint_hashes) = consumed
            /\ st.checkpoint = self.checkpoint
            /\ st.checkpoint_version = self.checkpoint_version
            /\ LastCheckpointIndex(state_checkpoint_hashes) = 0 =>
                   /\ st.checkpoint = base.checkpoint
                   /\ st.checkpoint_version = base.checkpoint_version
            /\ LastCheckpointIndex(state_checkpoint_hashes) > 0 =>
                   st.checkpoint_version =
                       first_version + LastCheckpointIndex(state_checkpoint_hashes) - 1
            /\ st.updated_since_checkpoint =
                   self.updated_between_checkpoint_and_latest \cup self.updated_after_latest
       ]_vars
    /\ [](ReturnedOk /\ LastOfChunkWasCheckpoint =>
            /\ returned.result_state.updated_since_checkpoint = {}
            /\ returned.result_state.current = returned.result_state.checkpoint
            /\ returned.result_state.checkpoint_version = first_version + consumed - 1)

\* A chunk of three transactions from version 0 whose second transaction forced
\* the checkpoint and whose third wrote a key: the returned state keeps
\* checkpoint_version 1 and the snapshot of that checkpoint, and has the key
\* of the trailing write folded into latest and in updated_since_checkpoint.
C18_Witness ==
    /\ ReturnedOk
    /\ first_version = 0
    /\ consumed = 3
    /\ LastCheckpointIndex(returned.state_checkpoint_hashes) = 2
    /\ pending_writes # EmptyMap
    /\ returned.result_state.checkpoint_version = 1
    /\ returned.result_state.updated_since_checkpoint = KeysOf(pending_writes)
    /\ returned.result_state.current.kv # returned.result_state.checkpoint.kv
    /\ returned.state_checkpoint_hashes[2] = {root_hash(returned.result_state.checkpoint)}

\* ---- new node hashes ----
\* The keys the base inherited as modified since its checkpoint, as far as the
\* previous checkpoint of the running call is that checkpoint.
InheritedKeys == IF NoEarlierCheckpoint THEN base.updated_since_checkpoint ELSE {}

\* C19: New node hashes are relative to the previous checkpoint.  The node-hash
\* map a checkpoint emits has the leaf of every key written since the previous
\* checkpoint, with the value the new snapshot holds: the keys this chunk wrote
\* since then and, at the first checkpoint of a chunk, the keys an earlier
\* chunk's finish folded into latest, whether this chunk wrote them or not.
C19_NodeHashesSincePreviousCheckpoint ==
    JustCheckpointed =>
        /\ KeysOf(Last(new_node_hashes_vec)) = InheritedKeys \cup KeysOf(pending_writes)
        /\ \A k \in KeysOf(Last(new_node_hashes_vec)) :
               Last(new_node_hashes_vec)[k] = self.latest.kv[k]
        /\ Last(new_node_hashes_vec) = WritesSincePreviousCheckpoint

\* The first checkpoint of a chunk that wrote key 2 only, on a base whose
\* latest snapshot had key 1 folded in by an earlier chunk: the emitted node
\* hashes hold the leaf of key 1 next to that of key 2.
C19_Witness ==
    /\ JustCheckpointed
    /\ NoEarlierCheckpoint
    /\ base.updated_since_checkpoint = {1}
    /\ KeysOf(pending_writes) = {2}
    /\ KeysOf(Last(new_node_hashes_vec)) = {1, 2}
    /\ Last(new_node_hashes_vec)[1] = base.current.kv[1]

\* ---- the parallel iterator of updates_after_latest ----
\* with_min_len: the least number of keys a worker's piece holds, scaled from
\* the source's 100 to the key sets of the model.
MinLen == 1

metaVars == <<database, progress_written, meta_result>>

\* The splits of `keys` into one piece per worker that par_iter can produce:
\* a piece is empty, or the whole, or has MinLen keys at least.
Pieces(keys) ==
    {owner \in [keys -> Workers] :
        \A w \in Workers :
            LET n == Cardinality({k \in keys : owner[k] = w})
            IN  n = 0 \/ n = Cardinality(keys) \/ n >= MinLen}

\* Mutant: only the piece of the first worker is collected.
Gather_FirstPieceOnly(parts) == parts[1]

\* collect::<Result<HashMap>>: the pairs of all pieces in one map.
Gather(parts) ==
    [k \in Keys |-> IF \E w \in Workers : parts[w][k] # NoValue
                    THEN (CHOOSE v \in Values : \E w \in Workers : parts[w][k] = v)
                    ELSE NoValue]

\* updates_after_latest is entered: the key set is copied into a vector and
\* split among the workers.
FanOutStart ==
    /\ fan_pc \in {"idle", "done"}
    /\ \E keys \in SUBSET Keys, cache \in [Keys -> 0..MaxVal] :
        /\ fan_self' = [updated_after_latest |-> keys, state_cache |-> cache]
        /\ \E owner \in Pieces(keys) : fan_todo' = {<<k, owner[k]>> : k \in keys}
    /\ fan_pc' = "running"
    /\ fan_parts' = [w \in Workers |-> EmptyMap]
    /\ fan_err' = FALSE
    /\ UNCHANGED fan_out
    /\ UNCHANGED calcVars
    /\ UNCHANGED metaVars

\* The closure of map, run by worker w on a key of its piece: the lookup in
\* the flat cache yields the pair or the error.
FanOutLookup ==
    /\ fan_pc = "running"
    /\ \E job \in fan_todo :
        LET k == job[1]
            w == job[2]
        IN  /\ fan_todo' = fan_todo \ {job}
            /\ IF fan_self.state_cache[k] # NoValue
               THEN /\ fan_parts' = [fan_parts EXCEPT ![w][k] = fan_self.state_cache[k]]
                    /\ UNCHANGED fan_err
               ELSE /\ fan_err' = TRUE
                    /\ UNCHANGED fan_parts
    /\ UNCHANGED <<fan_pc, fan_self, fan_out>>
    /\ UNCHANGED calcVars
    /\ UNCHANGED metaVars

\* collect: when every key was looked up, or as soon as a lookup has failed,
\* the call returns the gathered map or the error.
FanOutCollect ==
    /\ fan_pc = "running"
    /\ fan_todo = {} \/ fan_err
    /\ fan_out' = IF fan_err THEN [ok |-> FALSE, map |-> EmptyMap]
                  ELSE [ok |-> TRUE, map |-> Gather(fan_parts)]
    /\ fan_pc' = "done"
    /\ UNCHANGED <<fan_self, fan_todo, fan_parts, fan_err>>
    /\ UNCHANGED calcVars
    /\ UNCHANGED metaVars

NextFan == FanOutStart \/ FanOutLookup \/ FanOutCollect

SpecFan == Init /\ [][NextFan]_vars

\* C20: The parallel fan-out is order-independent and free of side effects.
\* However the keys of updated_after_latest are split among the workers and
\* in whatever order the lookups run, the call fails exactly when some key has
\* no value in the flat cache, a successful call returns each key with its
\* cached value and nothing else (the map the sequential lookup gives), and no
\* step of it changes the cache or the key set.
C20_FanOutOrderIndependent ==
    /\ [](fan_pc = "done" =>
            /\ ~fan_out.ok <=> \E k \in fan_self.updated_after_latest :
                                   fan_self.state_cache[k] = NoValue
            /\ fan_out.ok <=> updates_after_latest_ok(fan_self)
            /\ fan_out.ok => fan_out.map = updates_after_latest(fan_self))
    /\ [][fan_pc = "running" => fan_self' = fan_self]_vars

\* A call over two keys that went to two workers, one key each, and returned
\* both pairs.
C20_Witness ==
    /\ fan_pc = "done"
    /\ fan_out.ok
    /\ fan_self.updated_after_latest = {1, 2}
    /\ fan_parts[1] # EmptyMap
    /\ fan_parts[2] # EmptyMap
    /\ KeysOf(fan_out.map) = {1, 2}

====
